---------------------------- MODULE Spec2Model ----------------------------
(***************************************************************************)
(* Model of the Excel cloner: src/excel_clone.py (one open workbook, or    *)
(* all of them, cloned by Approach 1 with Approach 2 as fallback) and      *)
(* src/excel_clone_folder.py (every .xlsx of a folder cloned by the        *)
(* template approach alone, with a success/failed tally).                  *)
(*                                                                         *)
(* Vocabulary of the specification: Strategy B is approach_1 / clone (the  *)
(* template injection), Strategy C is approach_2 (rebuild with openpyxl).  *)
(* Neither program contains a Strategy A (native archive recopy).          *)
(***************************************************************************)
EXTENDS Integers, Sequences, FiniteSets, TLC

\* ------------------------------------------------------------------ bounds
NumSheets == 2      \* sheets of the workbook being cloned
MaxRuns == 2        \* successive cloning runs (excel_clone) that are followed
NumFiles == 2       \* .xlsx files found in the folder (excel_clone_folder)

VARIABLES
    \* ---- the filesystem and the run of approach_1 / clone / _clone
    templ,      \* os.path.isdir(TEMPLATE_DIR)
    work,       \* WORK_DIR: [exists, files, run]
    out,        \* the file at output_path: [exists, parts]
    used,       \* used[si]: ws.UsedRange is not None
    pc,         \* position in the program
    si,         \* the sheet index of approach_1's loop
    bRet,       \* how approach_1 / clone ended: none, true, false, raised
    cRet,       \* how approach_2 ended: none, true, raised
    err,        \* the operation whose exception is propagating, or none
    invoked,    \* the strategies invoked by the current run, in order
    runResult,     \* how the run ended: none, Succeeded, Failed, Raised
    run,        \* number of the current cloning run
    work0,      \* WORK_DIR as the current run found it
    \* ---- main of excel_clone_folder
    idx,        \* index of the file being processed
    success,    \* success counter
    failed,     \* failed counter
    attempts,   \* attempts[f]: times file f entered the loop body
    openWb,     \* workbooks opened by the batch and not closed
    wb,         \* the local variable wb: 0 while unbound
    delivered,  \* files copied into the output folder
    closeFailed, \* workbooks whose close in the except handler raised
    \* ---- _col_letter
    col_in,     \* the argument col_num as passed
    col_num,    \* the local col_num
    result,     \* the local result, a sequence of letters
    col_pc,     \* off, loop, done
    \* ---- _build_sheet_xml
    values,     \* the value grid
    start_row,
    start_col,
    sheet_xml,  \* the sheetData element built: a sequence of row elements
    sheet_pc,   \* off, call, done
    \* ---- the bulk read of a used region and its normalisation
    num_rows,
    num_cols,
    first_row,  \* used.Row
    first_col,  \* used.Column
    raw,        \* used.Value
    norm,       \* the variable values after the normalisation
    norm_pc,    \* off, read, done, raised
    \* ---- approach_2: the style facets of the cells of a sheet
    cell_fails,   \* cell_fails[k]: the facets whose read raises for cell k
    cell_applied, \* cell_applied[k]: the facets set on output cell k
    style_pc,     \* off, cells, done
    \* ---- approach_2: the merged cells of a sheet
    layout,       \* the merge areas of the sheet
    origin,       \* <<start_row, start_col>> of the used region
    cell_k,       \* number of cells already visited, row by row
    reports,      \* reports[m]: the cells read so far that reported merge area m
    merged_done,  \* the set merged_done
    merge_calls,  \* the arguments of out_ws.merge_cells, in call order
    merge_pc,     \* off, scan, done
    \* ---- _bgr_to_hex
    color_int,    \* the argument color_int
    hex_rgb,      \* the string returned
    color_pc      \* off, call, done

cloneVars == <<templ, work, out, used, pc, si, bRet, cRet, err, invoked, runResult, run, work0>>
batchVars == <<idx, success, failed, attempts, openWb, wb, delivered, closeFailed>>
colVars == <<col_in, col_num, result, col_pc>>
sheetVars == <<values, start_row, start_col, sheet_xml, sheet_pc>>
normVars == <<num_rows, num_cols, first_row, first_col, raw, norm, norm_pc>>
styleVars == <<cell_fails, cell_applied, style_pc>>
mergeVars == <<layout, origin, cell_k, reports, merged_done, merge_calls, merge_pc>>
colorVars == <<color_int, hex_rgb, color_pc>>
pureVars == <<colVars, sheetVars, normVars, styleVars, mergeVars, colorVars>>
vars == <<cloneVars, batchVars, pureVars>>

\* The parts of the program a specification does not exercise are at rest.
ColOff == col_in = 0 /\ col_num = 0 /\ result = <<>> /\ col_pc = "off"

SheetOff ==
    /\ values = <<>>
    /\ start_row = 0
    /\ start_col = 0
    /\ sheet_xml = <<>>
    /\ sheet_pc = "off"

NormOff ==
    /\ num_rows = 0
    /\ num_cols = 0
    /\ first_row = 0
    /\ first_col = 0
    /\ raw = <<>>
    /\ norm = <<>>
    /\ norm_pc = "off"

StyleOff == cell_fails = <<>> /\ cell_applied = <<>> /\ style_pc = "off"

MergeOff ==
    /\ layout = {}
    /\ origin = <<0, 0>>
    /\ cell_k = 0
    /\ reports = <<>>
    /\ merged_done = {}
    /\ merge_calls = <<>>
    /\ merge_pc = "off"

ColorOff == color_int = 0 /\ hex_rgb = <<>> /\ color_pc = "off"

CloneOff ==
    /\ templ = FALSE
    /\ work = [exists |-> FALSE, files |-> {}, run |-> 0]
    /\ out = [exists |-> FALSE, parts |-> {}]
    /\ used = <<>>
    /\ pc = "off"
    /\ si = 0
    /\ bRet = "none"
    /\ cRet = "none"
    /\ err = "none"
    /\ invoked = <<>>
    /\ runResult = "none"
    /\ run = 0
    /\ work0 = [exists |-> FALSE, files |-> {}, run |-> 0]

\* ------------------------------------------------------------ file trees
\* A directory tree is a set of <<part name, content>> pairs.
TemplateFiles ==
    {<<<<"content_types", 0>>, "tmpl">>, <<<<"workbook", 0>>, "tmpl">>,
     <<<<"sheet", 1>>, "tmpl">>}

Absent == [exists |-> FALSE, files |-> {}, run |-> 0]

\* A scratch tree left behind before the first run that is followed.
Stale == [exists |-> TRUE,
          files |-> {<<<<"junk", 0>>, "old">>, <<<<"sheet", 1>>, "old">>},
          run |-> 0]

NoFile == [exists |-> FALSE, parts |-> {}]
OldFile == [exists |-> TRUE, parts |-> {<<<<"old", 0>>, "old">>}]
PartialFile == [exists |-> TRUE, parts |-> {}]

\* open(path, "w") + write: the part named n now holds c.
WritePart(files, n, c) == {p \in files : p[1] # n} \cup {<<n, c>>}

\* if os.path.exists(WORK_DIR): shutil.rmtree(WORK_DIR)
RmtreeSkipped(w) == w

RmtreeIfExists(w) == IF w.exists THEN Absent ELSE w

\* shutil.copytree(TEMPLATE_DIR, WORK_DIR), run r
CopyTree(r) == [exists |-> TRUE, files |-> TemplateFiles, run |-> r]

\* zipfile.ZipFile(output_path, "w"): one entry per file of the tree
ZipOf(w) == [exists |-> TRUE, parts |-> w.files]

\* out_wb.save(output_path)
SavedByC == [exists |-> TRUE, parts |-> {<<<<"openpyxl", 0>>, "saved">>}]

\* ------------------------------------------------- approach_1 / clone
\* An exception leaves approach_1: nothing of the rest of the function runs.
Raise(op) ==
    /\ err' = op
    /\ bRet' = "raised"
    /\ pc' = "b_ret"

\* approach_1 is entered.
B_Enter ==
    /\ pc = "b_enter"
    /\ invoked' = Append(invoked, "B")
    /\ pc' = "b_check"
    /\ UNCHANGED <<templ, work, out, used, si, bRet, cRet, err, runResult, run, work0, batchVars, pureVars>>

\* The template check placed after the deletion of WORK_DIR.
B_TemplateMissingAfterRmtree ==
    /\ pc = "b_check"
    /\ ~templ
    /\ work' = RmtreeIfExists(work)
    /\ bRet' = "false"
    /\ pc' = "b_ret"
    /\ UNCHANGED <<templ, out, used, si, cRet, err, invoked, runResult, run, work0, batchVars, pureVars>>

\* if not os.path.isdir(TEMPLATE_DIR): return False
B_TemplateMissing ==
    /\ pc = "b_check"
    /\ ~templ
    /\ bRet' = "false"
    /\ pc' = "b_ret"
    /\ UNCHANGED <<templ, work, out, used, si, cRet, err, invoked, runResult, run, work0, batchVars, pureVars>>

\* if os.path.exists(WORK_DIR): shutil.rmtree(WORK_DIR)
\* (the deletion, here and on line 99, is taken not to fail)
B_Rmtree ==
    /\ pc = "b_check"
    /\ templ
    /\ work' = RmtreeIfExists(work)
    /\ pc' = "b_copy"
    /\ UNCHANGED <<templ, out, used, si, bRet, err, cRet, invoked, runResult, run, work0, batchVars, pureVars>>

\* shutil.copytree(TEMPLATE_DIR, WORK_DIR): raises when WORK_DIR exists, and
\* may fail after it has created WORK_DIR and copied some of the files.
B_Copytree ==
    /\ pc = "b_copy"
    /\ \/ /\ ~work.exists
          /\ work' = CopyTree(run)
          /\ si' = 1
          /\ pc' = "b_sheets"
          /\ UNCHANGED <<bRet, err>>
       \/ /\ ~work.exists
          /\ \E part \in (SUBSET TemplateFiles) \ {TemplateFiles} :
                work' = [exists |-> TRUE, files |-> part, run |-> run]
          /\ Raise("copytree")
          /\ UNCHANGED si
       \/ /\ work.exists
          /\ Raise("copytree")
          /\ UNCHANGED <<work, si>>
    /\ UNCHANGED <<templ, out, used, cRet, invoked, runResult, run, work0, batchVars, pureVars>>

\* One iteration of "for si in range(1, wb.Sheets.Count + 1)".
B_Sheet ==
    /\ pc = "b_sheets"
    /\ si <= NumSheets
    /\ \/ /\ ~used[si]                  \* used is None: continue
          /\ si' = si + 1
          /\ UNCHANGED <<work, pc, bRet, err>>
       \/ /\ used[si]                   \* the worksheet part is written
          /\ work' = [work EXCEPT !.files = WritePart(@, <<"sheet", si>>, "xml")]
          /\ si' = si + 1
          /\ UNCHANGED <<pc, bRet, err>>
       \/ /\ used[si]                   \* open(sheet_path, "w") raises
          /\ Raise("write")
          /\ UNCHANGED <<work, si>>
       \/ /\ used[si]                   \* f.write raises: the file is cut short
          /\ work' = [work EXCEPT !.files = WritePart(@, <<"sheet", si>>, "cut")]
          /\ Raise("write")
          /\ UNCHANGED si
    /\ UNCHANGED <<templ, out, used, cRet, invoked, runResult, run, work0, batchVars, pureVars>>

\* _build_shared_strings(wb, WORK_DIR)
B_SharedStrings ==
    /\ pc = "b_sheets"
    /\ si > NumSheets
    /\ \/ /\ work' = [work EXCEPT !.files = WritePart(@, <<"sharedStrings", 0>>, "sst")]
          /\ pc' = "b_zip"
          /\ UNCHANGED <<bRet, err>>
       \/ /\ Raise("sharedStrings")
          /\ UNCHANGED work
    /\ UNCHANGED <<templ, out, used, si, cRet, invoked, runResult, run, work0, batchVars, pureVars>>

\* if os.path.exists(output_path): os.remove(output_path); then the zip is
\* written: whole, or the write fails and leaves no file or a partial one.
B_Zip ==
    /\ pc = "b_zip"
    /\ \/ /\ out' = ZipOf(work)
          /\ pc' = "b_cleanup"
          /\ UNCHANGED <<bRet, err>>
       \/ /\ \E o \in {NoFile, PartialFile} : out' = o
          /\ Raise("zip")
    /\ UNCHANGED <<templ, work, used, si, cRet, invoked, runResult, run, work0, batchVars, pureVars>>

\* shutil.rmtree(WORK_DIR); return True
B_Cleanup ==
    /\ pc = "b_cleanup"
    /\ work' = Absent
    /\ bRet' = "true"
    /\ pc' = "b_ret"
    /\ UNCHANGED <<templ, out, used, si, err, cRet, invoked, runResult, run, work0, batchVars, pureVars>>

BSteps ==
    \/ B_Enter
    \/ B_TemplateMissing
    \/ B_Rmtree
    \/ B_Copytree
    \/ B_Sheet
    \/ B_SharedStrings
    \/ B_Zip
    \/ B_Cleanup

\* --------------------------------------------- excel_clone: _clone, main
\* The state in which no run is in progress.
Idle(o) ==
    /\ out = o
    /\ pc = "idle"
    /\ si = 0
    /\ bRet = "none"
    /\ cRet = "none"
    /\ err = "none"
    /\ invoked = <<>>
    /\ runResult = "none"

BatchIdle ==
    /\ idx = 0
    /\ success = 0
    /\ failed = 0
    /\ attempts = [f \in 1..NumFiles |-> 0]
    /\ openWb = {}
    /\ wb = 0
    /\ delivered = {}
    /\ closeFailed = {}

Init ==
    /\ templ \in BOOLEAN
    /\ work \in {Absent, Stale}
    /\ used \in [1..NumSheets -> BOOLEAN]
    /\ \E o \in {NoFile, OldFile} : Idle(o)
    /\ run = 0
    /\ work0 = work
    /\ BatchIdle
    /\ ColOff /\ SheetOff /\ NormOff /\ StyleOff /\ MergeOff /\ ColorOff

\* main calls _clone(wb, output_path); output_path may hold an older file.
CloneStart ==
    /\ pc \in {"idle", "done"}
    /\ run < MaxRuns
    /\ run' = run + 1
    /\ \E o \in {NoFile, OldFile} : out' = o
    /\ pc' = "b_enter"
    /\ si' = 0
    /\ bRet' = "none"
    /\ cRet' = "none"
    /\ err' = "none"
    /\ invoked' = <<>>
    /\ runResult' = "none"
    /\ work0' = work
    /\ UNCHANGED <<templ, work, used, batchVars, pureVars>>

\* _clone: "if not approach_1(wb, output_path): approach_2(wb, output_path)"
CloneAfterB ==
    /\ pc = "b_ret"
    /\ \/ /\ bRet = "true"
          /\ runResult' = "Succeeded"
          /\ pc' = "done"
          /\ UNCHANGED invoked
       \/ /\ bRet = "false"
          /\ invoked' = Append(invoked, "C")
          /\ pc' = "c_run"
          /\ UNCHANGED runResult
       \/ /\ bRet = "raised"            \* the exception leaves _clone
          /\ runResult' = "Raised"
          /\ pc' = "done"
          /\ UNCHANGED invoked
    /\ UNCHANGED <<templ, work, out, used, si, bRet, cRet, err, run, work0, batchVars, pureVars>>

\* approach_2: rebuilds the workbook and saves it; returns True or raises.
C_Run ==
    /\ pc = "c_run"
    /\ \/ /\ out' = SavedByC
          /\ cRet' = "true"
          /\ runResult' = "Succeeded"
          /\ UNCHANGED err
       \/ /\ \E o \in {out, PartialFile} : out' = o
          /\ cRet' = "raised"
          /\ err' = "save"
          /\ runResult' = "Raised"
    /\ pc' = "done"
    /\ UNCHANGED <<templ, work, used, si, bRet, invoked, run, work0, batchVars, pureVars>>

Next ==
    \/ CloneStart
    \/ BSteps
    \/ CloneAfterB
    \/ C_Run

Spec == Init /\ [][Next]_vars

\* ------------------------------------------ excel_clone_folder: main
\* The loop starts on the next file.
F_Next ==
    /\ pc = "f_loop"
    /\ idx < NumFiles
    /\ idx' = idx + 1
    /\ attempts' = [attempts EXCEPT ![idx + 1] = @ + 1]
    /\ pc' = "f_open"
    /\ run' = run + 1
    /\ \E o \in {NoFile, OldFile} : out' = o
    /\ si' = 0
    /\ bRet' = "none"
    /\ cRet' = "none"
    /\ err' = "none"
    /\ invoked' = <<>>
    /\ runResult' = "none"
    /\ work0' = work
    /\ UNCHANGED <<templ, work, used, success, failed, openWb, wb, delivered, closeFailed,
                   pureVars>>

\* wb = excel.Workbooks.Open(filepath, ReadOnly=True)
F_Open ==
    /\ pc = "f_open"
    /\ \/ /\ wb' = idx
          /\ openWb' = openWb \cup {idx}
          /\ pc' = "b_enter"
          /\ UNCHANGED err
       \/ /\ err' = "open"
          /\ pc' = "f_except"
          /\ UNCHANGED <<wb, openWb>>
    /\ UNCHANGED <<templ, work, out, used, si, bRet, cRet, invoked, runResult, run, work0,
                   idx, success, failed, attempts, delivered, closeFailed, pureVars>>

\* "if clone(wb, temp_output): ... else: failed += 1"
F_AfterClone ==
    /\ pc = "b_ret"
    /\ \/ /\ bRet = "true"
          /\ pc' = "f_copy"
          /\ UNCHANGED <<failed, runResult>>
       \/ /\ bRet = "false"
          /\ failed' = failed + 1
          /\ runResult' = "Failed"
          /\ pc' = "f_close"
       \/ /\ bRet = "raised"
          /\ pc' = "f_except"
          /\ UNCHANGED <<failed, runResult>>
    /\ UNCHANGED <<templ, work, out, used, si, bRet, cRet, err, invoked, run, work0,
                   idx, success, attempts, openWb, wb, delivered, closeFailed, pureVars>>

\* shutil.copy2(temp_output, final_output); os.remove(temp_output); success += 1
F_Copy ==
    /\ pc = "f_copy"
    /\ \/ /\ delivered' = delivered \cup {idx}
          /\ out' = NoFile
          /\ success' = success + 1
          /\ runResult' = "Succeeded"
          /\ pc' = "f_close"
          /\ UNCHANGED err
       \/ /\ err' = "copy2"             \* copy2 raises
          /\ pc' = "f_except"
          /\ UNCHANGED <<delivered, out, success, runResult>>
       \/ /\ delivered' = delivered \cup {idx}
          /\ err' = "remove"            \* os.remove raises
          /\ pc' = "f_except"
          /\ UNCHANGED <<out, success, runResult>>
    /\ UNCHANGED <<templ, work, used, si, bRet, cRet, invoked, run, work0,
                   idx, failed, attempts, openWb, wb, closeFailed, pureVars>>

\* wb.Close(SaveChanges=False), the last statement of the try block
F_Close ==
    /\ pc = "f_close"
    /\ \/ /\ openWb' = openWb \ {wb}
          /\ pc' = "f_loop"
          /\ UNCHANGED err
       \/ /\ err' = "close"
          /\ pc' = "f_except"
          /\ UNCHANGED openWb
    /\ UNCHANGED <<templ, work, out, used, si, bRet, cRet, invoked, runResult, run, work0,
                   idx, success, failed, attempts, wb, delivered, closeFailed, pureVars>>

\* The open workbooks after the handler's wb.Close(SaveChanges=False) on w
\* went through.
HandlerCloseSkipped(w, open) == open

CloseInHandler(w, open) == open \ {w}

\* "except Exception: failed += 1", then wb.Close guarded by its own try:
\* wb is unbound (NameError), bound to a closed workbook, or the close fails
\* on an open workbook and "except Exception: pass" swallows it.
F_Except ==
    /\ pc = "f_except"
    /\ failed' = failed + 1
    /\ runResult' = "Failed"
    /\ \/ /\ openWb' = CloseInHandler(wb, openWb)
          /\ UNCHANGED closeFailed
       \/ /\ wb \in openWb
          /\ closeFailed' = closeFailed \cup {wb}
          /\ UNCHANGED openWb
    /\ pc' = "f_loop"
    /\ UNCHANGED <<templ, work, out, used, si, bRet, cRet, err, invoked, run, work0,
                   idx, success, attempts, wb, delivered, pureVars>>

\* The summary is printed.
F_Summary ==
    /\ pc = "f_loop"
    /\ idx = NumFiles
    /\ pc' = "f_done"
    /\ UNCHANGED <<templ, work, out, used, si, bRet, cRet, err, invoked, runResult, run, work0,
                   batchVars, pureVars>>

InitFolder ==
    /\ templ \in BOOLEAN
    /\ work \in {Absent, Stale}
    /\ used \in [1..NumSheets -> BOOLEAN]
    /\ out = NoFile
    /\ pc = "f_loop"
    /\ si = 0
    /\ bRet = "none"
    /\ cRet = "none"
    /\ err = "none"
    /\ invoked = <<>>
    /\ runResult = "none"
    /\ run = 0
    /\ work0 = work
    /\ BatchIdle
    /\ ColOff /\ SheetOff /\ NormOff /\ StyleOff /\ MergeOff /\ ColorOff

NextFolder ==
    \/ F_Next
    \/ F_Open
    \/ BSteps
    \/ F_AfterClone
    \/ F_Copy
    \/ F_Close
    \/ F_Except
    \/ F_Summary

SpecFolder == InitFolder /\ [][NextFolder]_vars

\* ------------------------------------- either program, as the user runs it
\* idx = 0 exactly while excel_clone is the program running: the folder
\* program reaches the call of clone only inside its loop, where idx >= 1.
\* _clone of excel_clone receives what approach_1 returned.
SingleAfterB == idx = 0 /\ CloneAfterB

\* main of excel_clone_folder receives what clone returned.
BatchAfterClone == idx > 0 /\ F_AfterClone

InitEither == Init \/ InitFolder

NextEither ==
    \/ CloneStart
    \/ BSteps
    \/ SingleAfterB
    \/ C_Run
    \/ F_Next
    \/ F_Open
    \/ BatchAfterClone
    \/ F_Copy
    \/ F_Close
    \/ F_Except
    \/ F_Summary

SpecEither == InitEither /\ [][NextEither]_vars

\* ================================================================ claims
\* approach_1 / clone has returned or raised in the current run.
BEnded == bRet # "none"

\* The current run is past the deletion of WORK_DIR on lines 45-46.
PastDeletion == pc \in {"b_copy", "b_sheets", "b_zip", "b_cleanup"} \/ (templ /\ BEnded)

\* Operations inside approach_1 / clone that can fail.
BErrors == {"copytree", "write", "sharedStrings", "zip"}

\* C1: the strategies of one run are invoked in the canonical order (no copy
\* path exists, so A is never applicable: B, then C), never twice, C only
\* after B reported failure; and when B has failed, in whatever way, C is
\* invoked next, the run ending Succeeded if B or C succeeded.
C1_FallbackOrdering ==
    /\ invoked \in {<<>>, <<"B">>, <<"B", "C">>}
    /\ (Len(invoked) = 2 => bRet = "false")
    /\ (pc = "done" /\ bRet \in {"false", "raised"} => invoked = <<"B", "C">>)
    /\ (pc = "done" /\ (bRet = "true" \/ cRet = "true") => runResult = "Succeeded")

\* C2: no failure inside Strategy B leaves it as an exception: B ends with an
\* outcome, and after a failed operation of B the controller goes on to C.
C2_FailureNeverEscapes ==
    /\ bRet # "raised"
    /\ (pc = "done" /\ err \in BErrors => invoked = <<"B", "C">>)

\* C3: once a run of Strategy B has duplicated the template into WORK_DIR,
\* WORK_DIR does not exist when that run of B has ended, however it ended.
C3_GuaranteedCleanup ==
    (BEnded /\ err # "copytree") => ~(work.exists /\ work.run = run)

C4_TallyAddsUp ==
    /\ \A f \in 1..NumFiles : attempts[f] = (IF f <= idx THEN 1 ELSE 0)
    /\ (pc \in {"f_loop", "f_done"} => success + failed = idx)
    /\ (pc = "f_done" => idx = NumFiles /\ success + failed = NumFiles)

\* The loop is between two documents: before the next Open, or past the last.
BetweenDocuments == pc \in {"f_loop", "f_open", "f_done"}

C12_MissingTemplateIsLocal ==
    /\ [](~templ => bRet \in {"none", "false"} /\ work = work0)
    /\ [](~templ /\ pc = "b_ret" => bRet = "false" /\ err = "none")
    /\ [][~templ /\ pc \in {"b_enter", "b_check"} => work' = work /\ out' = out]_vars
    /\ [][~templ /\ pc = "b_ret" /\ idx = 0
            => pc' = "c_run" /\ invoked' = <<"B", "C">>]_vars
    /\ [][~templ /\ pc = "b_ret" /\ idx > 0
            => /\ failed' = failed + 1
               /\ success' = success
               /\ runResult' = "Failed"
               /\ invoked' = <<"B">>]_vars
    /\ [](~templ /\ idx > 0 => success = 0 /\ delivered = {})

\* excel_clone, no template, a stale WORK_DIR: Strategy B failed, Strategy C
\* was called and saved the output, and the stale WORK_DIR is still there.
C12_Witness ==
    /\ ~templ
    /\ idx = 0
    /\ pc = "done"
    /\ bRet = "false"
    /\ invoked = <<"B", "C">>
    /\ runResult = "Succeeded"
    /\ work = Stale

\* ========================================================== _col_letter
MaxCol == 703       \* largest column number converted

Letters ==
    <<"A", "B", "C", "D", "E", "F", "G", "H", "I", "J", "K", "L", "M",
      "N", "O", "P", "Q", "R", "S", "T", "U", "V", "W", "X", "Y", "Z">>

\* chr(code) for the codes of the capital letters
Chr(code) == Letters[code - 64]

\* Ordinary base 26 with a zero digit: divmod(col_num, 26).
ColStepZeroDigit(n, res) ==
    [col_num |-> n \div 26, result |-> <<Chr(65 + (n % 26))>> \o res]

\* col_num, remainder = divmod(col_num - 1, 26)
\* result = chr(65 + remainder) + result
ColStep(n, res) ==
    [col_num |-> (n - 1) \div 26, result |-> <<Chr(65 + ((n - 1) % 26))>> \o res]

\* _col_letter(col_num) as a whole: the loop run to its end.
RECURSIVE ColLoop(_, _)
ColLoop(n, res) ==
    IF n > 0 THEN ColLoop(ColStep(n, res).col_num, ColStep(n, res).result) ELSE res

ColLetter(n) == ColLoop(n, <<>>)

\* _col_letter is called with a column number: result = ""
InitCol ==
    /\ col_in \in 1..MaxCol
    /\ col_num = col_in
    /\ result = <<>>
    /\ col_pc = "loop"
    /\ CloneOff /\ BatchIdle /\ SheetOff /\ NormOff /\ StyleOff /\ MergeOff /\ ColorOff

\* One iteration of "while col_num > 0".
ColIterate ==
    /\ col_pc = "loop"
    /\ col_num > 0
    /\ col_num' = ColStep(col_num, result).col_num
    /\ result' = ColStep(col_num, result).result
    /\ UNCHANGED <<col_in, col_pc>>
    /\ UNCHANGED <<cloneVars, batchVars, sheetVars, normVars, styleVars, mergeVars, colorVars>>

\* The loop condition is false: return result.
ColReturn ==
    /\ col_pc = "loop"
    /\ ~(col_num > 0)
    /\ col_pc' = "done"
    /\ UNCHANGED <<col_in, col_num, result>>
    /\ UNCHANGED <<cloneVars, batchVars, sheetVars, normVars, styleVars, mergeVars, colorVars>>

NextCol ==
    \/ ColIterate
    \/ ColReturn

\* The loop is sequential code: an enabled iteration is executed.
SpecCol == InitCol /\ [][NextCol]_vars /\ WF_vars(NextCol)

\* The position of a letter in the alphabet: A = 1 .. Z = 26.
LetterValue(c) == CHOOSE i \in 1..26 : Letters[i] = c

\* Positional base 26 decoding of a sequence of letters.
RECURSIVE ColNumber(_)
ColNumber(ls) ==
    IF ls = <<>> THEN 0
    ELSE 26 * ColNumber(SubSeq(ls, 1, Len(ls) - 1)) + LetterValue(ls[Len(ls)])

\* The conversions the specification lists.
ListedLetters(n) ==
    CASE n = 1 -> <<"A">>
      [] n = 26 -> <<"Z">>
      [] n = 27 -> <<"A", "A">>
      [] n = 52 -> <<"A", "Z">>
      [] n = 702 -> <<"Z", "Z">>
      [] n = 703 -> <<"A", "A", "A">>

Listed == {1, 26, 27, 52, 702, 703}

\* C9: the letters _col_letter returns for n >= 1 decode (A = 1 .. Z = 26,
\* positional base 26) to n; 1, 26, 27, 52, 702, 703 give A, Z, AA, AZ, ZZ,
\* AAA; every iteration makes col_num smaller and keeps it >= 0, and the
\* loop ends.
C9_ColLetterBijective ==
    /\ [](col_pc = "done" =>
            /\ result # <<>>
            /\ ColNumber(result) = col_in
            /\ (col_in \in Listed => result = ListedLetters(col_in)))
    /\ [][col_num' # col_num => (0 <= col_num' /\ col_num' < col_num)]_vars
    /\ <>(col_pc = "done")

\* 703 has been converted to AAA.
C9_Witness ==
    /\ col_pc = "done"
    /\ col_in = 703
    /\ result = <<"A", "A", "A">>

\* ====================================================== _build_sheet_xml
MaxGridRows == 3    \* rows of the value grid
MaxGridCols == 2    \* columns of the value grid
MaxStartRow == 11   \* largest first row of the used region
MaxStartCol == 27   \* largest first column of the used region

\* A cell value as COM returns it: None, a str, a bool or a number (the
\* value kinds of the data model; numbers are taken as integers).
VNone == [k |-> "none", s |-> "", b |-> FALSE, n |-> 0]
VStr(x) == [k |-> "str", s |-> x, b |-> FALSE, n |-> 0]
VBool(x) == [k |-> "bool", s |-> "", b |-> x, n |-> 0]
VNum(x) == [k |-> "num", s |-> "", b |-> FALSE, n |-> x]

SampleValues ==
    <<VNone, VStr("Name"), VBool(TRUE), VBool(FALSE), VNum(30), VNum(0), VNum(-7)>>

Digits == <<"0", "1", "2", "3", "4", "5", "6", "7", "8", "9">>

\* str(n) of a non-negative int: its decimal digits
RECURSIVE NatToStr(_)
NatToStr(n) ==
    IF n < 10 THEN <<Digits[n + 1]>>
    ELSE NatToStr(n \div 10) \o <<Digits[(n % 10) + 1]>>

\* str(val) of a number, and of a bool (what the else branch would write)
Str(n) == IF n < 0 THEN <<"-">> \o NatToStr(-n) ELSE NatToStr(n)

StrOfBool(b) == IF b THEN <<"T", "r", "u", "e">> ELSE <<"F", "a", "l", "s", "e">>

\* The branches in another order: the number branch before the bool one
\* (a bool is an int in Python).
BuildCellBoolAsNumber(val, cell_ref) ==
    CASE val.k = "none" -> [r |-> cell_ref, t |-> "none", child |-> "none", text |-> <<>>]
      [] val.k = "str" -> [r |-> cell_ref, t |-> "inlineStr", child |-> "is", text |-> <<val.s>>]
      [] val.k = "num" -> [r |-> cell_ref, t |-> "none", child |-> "v", text |-> Str(val.n)]
      [] OTHER -> [r |-> cell_ref, t |-> "none", child |-> "v", text |-> StrOfBool(val.b)]

\* The cell element <c r=cell_ref>: attribute t, the child element and its
\* text, by "if val is None / isinstance(val, str) / isinstance(val, bool) /
\* else".
BuildCell(val, cell_ref) ==
    CASE val.k = "none" -> [r |-> cell_ref, t |-> "none", child |-> "none", text |-> <<>>]
      [] val.k = "str" -> [r |-> cell_ref, t |-> "inlineStr", child |-> "is", text |-> <<val.s>>]
      [] val.k = "bool" ->
            [r |-> cell_ref, t |-> "b", child |-> "v",
             text |-> IF val.b THEN <<"1">> ELSE <<"0">>]
      [] OTHER -> [r |-> cell_ref, t |-> "none", child |-> "v", text |-> Str(val.n)]

\* The row element <row r=str(r)> of row_vals, the j-th value (from 0) at
\* column start_col + j.
BuildRow(row_vals, r, c0) ==
    [r |-> Str(r),
     cells |-> [j \in 1..Len(row_vals) |->
                  BuildCell(row_vals[j], ColLetter(c0 + (j - 1)) \o Str(r))]]

\* sheetData: the i-th row of values (from 0) at row start_row + i.
BuildSheetXml(vals, r0, c0) ==
    [i \in 1..Len(vals) |-> BuildRow(vals[i], r0 + (i - 1), c0)]

\* A grid of rows x cols values in which the kinds of value follow one
\* another from the off-th on.
Grid(rows, cols, off) ==
    [i \in 1..rows |-> [j \in 1..cols |->
        SampleValues[((off + (i - 1) * cols + (j - 1)) % Len(SampleValues)) + 1]]]

InitSheet ==
    /\ \E rows \in 1..MaxGridRows, cols \in 1..MaxGridCols, off \in 0..(Len(SampleValues) - 1) :
          values = Grid(rows, cols, off)
    /\ start_row \in 1..MaxStartRow
    /\ start_col \in 1..MaxStartCol
    /\ sheet_xml = <<>>
    /\ sheet_pc = "call"
    /\ CloneOff /\ BatchIdle /\ ColOff /\ NormOff /\ StyleOff /\ MergeOff /\ ColorOff

\* sheet_xml = _build_sheet_xml(values, start_row, start_col, ws)
SheetBuild ==
    /\ sheet_pc = "call"
    /\ sheet_xml' = BuildSheetXml(values, start_row, start_col)
    /\ sheet_pc' = "done"
    /\ UNCHANGED <<values, start_row, start_col>>
    /\ UNCHANGED <<cloneVars, batchVars, colVars, normVars, styleVars, mergeVars, colorVars>>

NextSheet ==
    \/ SheetBuild

SpecSheet == InitSheet /\ [][NextSheet]_vars

LetterSet == {Letters[i] : i \in 1..26}
DigitSet == {Digits[i] : i \in 1..10}
DigitValue(d) == CHOOSE i \in 0..9 : Digits[i + 1] = d

\* The number a sequence of decimal digits denotes.
RECURSIVE ParseNat(_)
ParseNat(ds) ==
    IF ds = <<>> THEN 0
    ELSE 10 * ParseNat(SubSeq(ds, 1, Len(ds) - 1)) + DigitValue(ds[Len(ds)])

IsNumeral(ds) == ds # <<>> /\ \A k \in 1..Len(ds) : ds[k] \in DigitSet

\* text is the plain decimal text of the integer n.
IsTextOf(text, n) ==
    IF n < 0
    THEN /\ Len(text) >= 2
         /\ text[1] = "-"
         /\ IsNumeral(Tail(text))
         /\ ParseNat(Tail(text)) = -n
    ELSE IsNumeral(text) /\ ParseNat(text) = n

\* ref is the letters of column c followed by the digits of row r.
IsAddress(ref, c, r) ==
    \E m \in 1..(Len(ref) - 1) :
        /\ \A k \in 1..m : ref[k] \in LetterSet
        /\ ColNumber(SubSeq(ref, 1, m)) = c
        /\ IsTextOf(SubSeq(ref, m + 1, Len(ref)), r)

\* The cell element el encodes the value val.
Encodes(el, val) ==
    CASE val.k = "none" -> el.t = "none" /\ el.child = "none" /\ el.text = <<>>
      [] val.k = "str" -> el.t = "inlineStr" /\ el.child = "is" /\ el.text = <<val.s>>
      [] val.k = "bool" ->
            /\ el.t = "b"
            /\ el.child = "v"
            /\ el.text = (IF val.b THEN <<"1">> ELSE <<"0">>)
      [] OTHER -> el.t = "none" /\ el.child = "v" /\ IsTextOf(el.text, val.n)

\* C6: the worksheet part has one row element per grid row, at row index
\* start_row + i, and in it one cell element per value, at the address of
\* column start_col + j and that row; an absent value gives a cell with no
\* type and no child, a string an inline string, a boolean a cell of type b
\* with 0 or 1, any other value an untyped cell with the number's text.
C6_SheetSynthesis ==
    sheet_pc = "done" =>
        /\ Len(sheet_xml) = Len(values)
        /\ \A i \in 1..Len(values) :
              /\ IsTextOf(sheet_xml[i].r, start_row + (i - 1))
              /\ Len(sheet_xml[i].cells) = Len(values[i])
              /\ \A j \in 1..Len(values[i]) :
                    /\ IsAddress(sheet_xml[i].cells[j].r, start_col + (j - 1),
                                 start_row + (i - 1))
                    /\ Encodes(sheet_xml[i].cells[j], values[i][j])

\* A boolean in the first cell of a region that starts at AA10.
C6_Witness ==
    /\ sheet_pc = "done"
    /\ start_col = 27
    /\ start_row = 10
    /\ values[1][1] = VBool(TRUE)
    /\ sheet_xml[1].cells[1] =
          [r |-> <<"A", "A", "1", "0">>, t |-> "b", child |-> "v", text |-> <<"1">>]

\* ================================== the bulk read and its normalisation
MaxRegionRows == 3  \* rows of the used region
MaxRegionCols == 3  \* columns of the used region
MaxFirst == 3       \* largest first row and first column of the used region

\* A Python object of the bulk read: a scalar cell value or a tuple.
Scalar(v) == [tag |-> "scalar", v |-> v, items |-> <<>>]
Tuple(items) == [tag |-> "tuple", v |-> 0, items |-> items]

\* The content of the cell at (r, c): a different value in every cell.
CellValue(r, c) == 100 * r + c

\* used.Value as a bare scalar, as a flat sequence of the cells of the one
\* row or column, and as a sequence of row sequences.
RawScalar(r0, c0) == Scalar(CellValue(r0, c0))

RawFlat(rows, cols, r0, c0) ==
    IF rows = 1
    THEN Tuple([j \in 1..cols |-> Scalar(CellValue(r0, c0 + (j - 1)))])
    ELSE Tuple([i \in 1..rows |-> Scalar(CellValue(r0 + (i - 1), c0))])

RawNested(rows, cols, r0, c0) ==
    Tuple([i \in 1..rows |->
        Tuple([j \in 1..cols |-> Scalar(CellValue(r0 + (i - 1), c0 + (j - 1)))])])

\* The shapes the host may return for a region of rows x cols cells.
HostShapes(rows, cols, r0, c0) ==
    IF rows = 1 /\ cols = 1 THEN {RawScalar(r0, c0)}
    ELSE IF rows = 1 \/ cols = 1
         THEN {RawFlat(rows, cols, r0, c0), RawNested(rows, cols, r0, c0)}
         ELSE {RawNested(rows, cols, r0, c0)}

\* The four branches on num_rows and num_cols; list(x) is the sequence of
\* the items of x, "for (v,) in raw" takes the one item of each row.
Normalize(rw, rows, cols) ==
    IF rows = 1 /\ cols = 1 THEN <<<<rw>>>>
    ELSE IF rows = 1 THEN <<rw.items>>
    ELSE IF cols = 1
         THEN IF rw.items[1].tag = "tuple"
              THEN [i \in 1..Len(rw.items) |-> <<rw.items[i].items[1]>>]
              ELSE [i \in 1..Len(rw.items) |-> <<rw.items[i]>>]
         ELSE [i \in 1..Len(rw.items) |-> rw.items[i].items]

InitNorm ==
    /\ num_rows \in 1..MaxRegionRows
    /\ num_cols \in 1..MaxRegionCols
    /\ first_row \in 1..MaxFirst
    /\ first_col \in 1..MaxFirst
    /\ raw = <<>>
    /\ norm = <<>>
    /\ norm_pc = "read"
    /\ CloneOff /\ BatchIdle /\ ColOff /\ SheetOff /\ StyleOff /\ MergeOff /\ ColorOff

\* raw = used.Value
NormRead ==
    /\ norm_pc = "read"
    /\ raw' \in HostShapes(num_rows, num_cols, first_row, first_col)
    /\ norm_pc' = "branch"
    /\ UNCHANGED <<num_rows, num_cols, first_row, first_col, norm>>
    /\ UNCHANGED <<cloneVars, batchVars, colVars, sheetVars, styleVars, mergeVars, colorVars>>

\* values = ... by the branch for num_rows and num_cols
NormBranch ==
    /\ norm_pc = "branch"
    /\ norm' = Normalize(raw, num_rows, num_cols)
    /\ norm_pc' = "done"
    /\ UNCHANGED <<num_rows, num_cols, first_row, first_col, raw>>
    /\ UNCHANGED <<cloneVars, batchVars, colVars, sheetVars, styleVars, mergeVars, colorVars>>

NextNorm ==
    \/ NormRead
    \/ NormBranch

SpecNorm == InitNorm /\ [][NextNorm]_vars

\* C7: whatever shape the bulk read returned, the normalised grid has
\* num_rows rows of num_cols scalar values each, the value at [i][j] being
\* that of the cell at (first row + i, first column + j).
C7_NormalizedGrid ==
    norm_pc = "done" =>
        /\ Len(norm) = num_rows
        /\ \A i \in 1..Len(norm) :
              /\ Len(norm[i]) = num_cols
              /\ \A j \in 1..Len(norm[i]) :
                    norm[i][j] = Scalar(CellValue(first_row + (i - 1), first_col + (j - 1)))

\* ===================================== approach_2: the facets of a cell
StyleCells == 2     \* cells of the sheet whose formatting is copied

\* The facets in the order in which lines 219-223 copy them.
Facets == <<"font", "fill", "alignment", "number_format", "borders">>
FacetSet == {Facets[k] : k \in 1..Len(Facets)}

\* _copy_borders reads every edge inside its own try/except: a failing
\* read of the borders raises nothing. The other helpers read src.Font,
\* src.Interior, the alignment properties and src.NumberFormat unguarded.
RaisesOut(f) == f # "borders"

\* The facets set on the output cell when the reads of the facets in fails
\* raise: the one try block of lines 217-225 ends at the first exception.
RECURSIVE CopyFrom(_, _)
CopyFrom(k, fails) ==
    IF k > Len(Facets) THEN {}
    ELSE IF Facets[k] \in fails
         THEN IF RaisesOut(Facets[k]) THEN {} ELSE CopyFrom(k + 1, fails)
         ELSE {Facets[k]} \cup CopyFrom(k + 1, fails)

CopyFacets(fails) == CopyFrom(1, fails)

InitStyle ==
    /\ cell_fails = <<>>
    /\ cell_applied = <<>>
    /\ style_pc = "cells"
    /\ CloneOff /\ BatchIdle /\ ColOff /\ SheetOff /\ NormOff /\ MergeOff /\ ColorOff

\* The body of the loop over the cells, for the next cell: the value is
\* written, then the facets are copied; fails is what the host refuses.
StyleCell ==
    /\ style_pc = "cells"
    /\ Len(cell_fails) < StyleCells
    /\ \E fails \in SUBSET FacetSet :
          /\ cell_fails' = Append(cell_fails, fails)
          /\ cell_applied' = Append(cell_applied, CopyFacets(fails))
    /\ UNCHANGED style_pc
    /\ UNCHANGED <<cloneVars, batchVars, colVars, sheetVars, normVars, mergeVars, colorVars>>

\* The loop over the cells has ended.
StyleEnd ==
    /\ style_pc = "cells"
    /\ Len(cell_fails) = StyleCells
    /\ style_pc' = "done"
    /\ UNCHANGED <<cell_fails, cell_applied>>
    /\ UNCHANGED <<cloneVars, batchVars, colVars, sheetVars, normVars, mergeVars, colorVars>>

NextStyle ==
    \/ StyleCell
    \/ StyleEnd

SpecStyle == InitStyle /\ [][NextStyle]_vars

\* C5: every facet of a cell whose read did not fail is applied to that
\* cell, whichever other facets of the cell failed, and the loop goes on to
\* the cells after it.
C5_FacetsIndependent ==
    /\ \A k \in 1..Len(cell_fails) : (FacetSet \ cell_fails[k]) \subseteq cell_applied[k]
    /\ (style_pc = "done" => Len(cell_applied) = StyleCells)

\* ================================= approach_2: the merged cells of a sheet
MergeRows == 2      \* rows of the used region scanned for merges
MergeCols == 2      \* columns of the used region scanned for merges
MaxMerges == 2      \* merge areas on the sheet

\* The used regions scanned: their <<start_row, start_col>>.
Origins == {<<1, 1>>, <<2, 26>>}

\* A merge area of more than one cell inside the used region at o.
Areas(o) ==
    {m \in [r1 : o[1]..(o[1] + MergeRows - 1), r2 : o[1]..(o[1] + MergeRows - 1),
            c1 : o[2]..(o[2] + MergeCols - 1), c2 : o[2]..(o[2] + MergeCols - 1)] :
        m.r1 <= m.r2 /\ m.c1 <= m.c2 /\ (m.r1 < m.r2 \/ m.c1 < m.c2)}

Inside(r, c, m) == m.r1 <= r /\ r <= m.r2 /\ m.c1 <= c /\ c <= m.c2

Disjoint(m, n) == m.r2 < n.r1 \/ n.r2 < m.r1 \/ m.c2 < n.c1 \/ n.c2 < m.c1

\* The merge areas of a sheet do not overlap: the layouts of at most n areas.
RECURSIVE LayoutsUpTo(_, _)
LayoutsUpTo(o, n) ==
    IF n = 0 THEN {{}}
    ELSE LayoutsUpTo(o, n - 1) \cup
         {L \cup {m} : <<L, m>> \in
             {lm \in LayoutsUpTo(o, n - 1) \X Areas(o) :
                 \A x \in lm[1] : Disjoint(x, lm[2])}}

Layouts(o) == LayoutsUpTo(o, MaxMerges)

\* cell.MergeArea.Address: absolute references, as in $A$1:$B$2
HostAddress(m) ==
    <<"$">> \o ColLetter(m.c1) \o <<"$">> \o Str(m.r1) \o <<":">> \o
    <<"$">> \o ColLetter(m.c2) \o <<"$">> \o Str(m.r2)

\* .replace("$", "")
RECURSIVE StripDollar(_)
StripDollar(a) ==
    IF a = <<>> THEN <<>>
    ELSE IF Head(a) = "$" THEN StripDollar(Tail(a))
         ELSE <<Head(a)>> \o StripDollar(Tail(a))

\* Without "if addr not in merged_done": every reporting cell merges.
MergeCellUnchecked(addr, done, calls) ==
    [merged_done |-> done \cup {addr}, merge_calls |-> Append(calls, addr)]

\* if addr not in merged_done: merged_done.add(addr); out_ws.merge_cells(addr)
MergeCell(addr, done, calls) ==
    IF addr \notin done
    THEN [merged_done |-> done \cup {addr}, merge_calls |-> Append(calls, addr)]
    ELSE [merged_done |-> done, merge_calls |-> calls]

\* The cell visited after k cells: row by row from the origin.
CellRow(k) == origin[1] + (k \div MergeCols)
CellCol(k) == origin[2] + (k % MergeCols)

\* merged_done = set(), before the loops over i and j
InitMerge ==
    /\ origin \in Origins
    /\ layout \in Layouts(origin)
    /\ cell_k = 0
    /\ reports = [m \in layout |-> 0]
    /\ merged_done = {}
    /\ merge_calls = <<>>
    /\ merge_pc = "scan"
    /\ CloneOff /\ BatchIdle /\ ColOff /\ SheetOff /\ NormOff /\ StyleOff /\ ColorOff

\* The body of the loops for the next cell: the read of its merge state
\* raises (except: pass), or the cell is in no merge, or it reports its area.
MergeVisit ==
    /\ merge_pc = "scan"
    /\ cell_k < MergeRows * MergeCols
    /\ cell_k' = cell_k + 1
    /\ \/ UNCHANGED <<reports, merged_done, merge_calls>>       \* the read raises
       \/ /\ \A m \in layout : ~Inside(CellRow(cell_k), CellCol(cell_k), m)
          /\ UNCHANGED <<reports, merged_done, merge_calls>>
       \/ \E m \in layout :
             /\ Inside(CellRow(cell_k), CellCol(cell_k), m)
             /\ reports' = [reports EXCEPT ![m] = @ + 1]
             /\ merged_done' =
                   MergeCell(StripDollar(HostAddress(m)), merged_done, merge_calls).merged_done
             /\ merge_calls' =
                   MergeCell(StripDollar(HostAddress(m)), merged_done, merge_calls).merge_calls
    /\ UNCHANGED <<layout, origin, merge_pc>>
    /\ UNCHANGED <<cloneVars, batchVars, colVars, sheetVars, normVars, styleVars, colorVars>>

\* Both loops have ended: "if merged_done: print(...)".
MergeEnd ==
    /\ merge_pc = "scan"
    /\ cell_k = MergeRows * MergeCols
    /\ merge_pc' = "done"
    /\ UNCHANGED <<layout, origin, cell_k, reports, merged_done, merge_calls>>
    /\ UNCHANGED <<cloneVars, batchVars, colVars, sheetVars, normVars, styleVars, colorVars>>

NextMerge ==
    \/ MergeVisit
    \/ MergeEnd

SpecMerge == InitMerge /\ [][NextMerge]_vars

\* The address of a merge area as the output sheet takes it: A1:B2.
PlainAddress(m) ==
    ColLetter(m.c1) \o NatToStr(m.r1) \o <<":">> \o ColLetter(m.c2) \o NatToStr(m.r2)

\* C10: the merge set holds exactly the addresses of the areas that some
\* cell read so far has reported, one entry per area; each of them has been
\* passed to out_ws.merge_cells exactly once, however many cells reported
\* it; and the scan ends only after every cell has been visited.
C10_MergeOnce ==
    /\ merged_done = {PlainAddress(m) : m \in {n \in layout : reports[n] > 0}}
    /\ Cardinality(merged_done) = Cardinality({n \in layout : reports[n] > 0})
    /\ Len(merge_calls) = Cardinality(merged_done)
    /\ \A a \in merged_done :
          Cardinality({k \in 1..Len(merge_calls) : merge_calls[k] = a}) = 1
    /\ (merge_pc = "done" => cell_k = MergeRows * MergeCols)

\* The merge (1,1)-(2,2), reported by its four cells, is one entry.
C10_Witness ==
    /\ merge_pc = "done"
    /\ origin = <<1, 1>>
    /\ \E m \in layout :
          /\ m = [r1 |-> 1, r2 |-> 2, c1 |-> 1, c2 |-> 2]
          /\ reports[m] = 4
    /\ merged_done = {<<"A", "1", ":", "B", "2">>}
    /\ merge_calls = <<<<"A", "1", ":", "B", "2">>>>

\* ========================================================== _bgr_to_hex
ByteStride == 13    \* every ByteStride-th value of a colour byte is drawn

\* The values drawn for one byte of the colour, 0 and 255 among them.
ByteSamples == {x \in 0..255 : x % ByteStride = 0} \cup {255}

\* The 24-bit colours 0xBBGGRR the host hands over (a whole number, so that
\* c = int(color_int) is color_int itself).
HostColor(r, g, b) == b * 65536 + g * 256 + r

HexDigits ==
    <<"0", "1", "2", "3", "4", "5", "6", "7", "8", "9", "A", "B", "C", "D", "E", "F">>

\* format(x, "X"): the capital hexadecimal digits of x, no padding
RECURSIVE HexStr(_)
HexStr(x) ==
    IF x < 16 THEN <<HexDigits[x + 1]>>
    ELSE HexStr(x \div 16) \o <<HexDigits[(x % 16) + 1]>>

\* f"{x:02X}": padded with zeros on the left to two digits at least
Format02X(x) == IF Len(HexStr(x)) < 2 THEN <<"0">> \o HexStr(x) ELSE HexStr(x)

\* The bytes written in the order of the host integer: blue, green, red.
BgrToHexUnswapped(c) ==
    Format02X((c \div 65536) % 256) \o Format02X((c \div 256) % 256) \o Format02X(c % 256)

\* b = (c >> 16) & 0xFF; g = (c >> 8) & 0xFF; r = c & 0xFF
\* return f"{r:02X}{g:02X}{b:02X}"
BgrToHex(c) ==
    LET b == (c \div 65536) % 256
        g == (c \div 256) % 256
        r == c % 256
    IN  Format02X(r) \o Format02X(g) \o Format02X(b)

\* _bgr_to_hex is called with a 24-bit colour.
InitColor ==
    /\ \E r \in ByteSamples, g \in ByteSamples, b \in ByteSamples :
           color_int = HostColor(r, g, b)
    /\ hex_rgb = <<>>
    /\ color_pc = "call"
    /\ CloneOff /\ BatchIdle /\ ColOff /\ SheetOff /\ NormOff /\ StyleOff /\ MergeOff

\* The call returns.
ColorCall ==
    /\ color_pc = "call"
    /\ hex_rgb' = BgrToHex(color_int)
    /\ color_pc' = "done"
    /\ UNCHANGED <<color_int, cloneVars, batchVars, colVars, sheetVars, normVars, styleVars,
                   mergeVars>>

NextColor == ColorCall

SpecColor == InitColor /\ [][NextColor]_vars

\* ---------------------------------------------------------------- claim
\* Reading the string back: the value of a hexadecimal digit and of a numeral.
HexDigitValues ==
    {<<"0", 0>>, <<"1", 1>>, <<"2", 2>>, <<"3", 3>>, <<"4", 4>>, <<"5", 5>>,
     <<"6", 6>>, <<"7", 7>>, <<"8", 8>>, <<"9", 9>>, <<"A", 10>>, <<"B", 11>>,
     <<"C", 12>>, <<"D", 13>>, <<"E", 14>>, <<"F", 15>>}

IsHexDigit(ch) == \E p \in HexDigitValues : p[1] = ch

HexDigitValue(ch) == (CHOOSE p \in HexDigitValues : p[1] = ch)[2]

RECURSIVE ParseHex(_)
ParseHex(s) ==
    IF s = <<>> THEN 0
    ELSE 16 * ParseHex(SubSeq(s, 1, Len(s) - 1)) + HexDigitValue(s[Len(s)])

\* An 0xRRGGBB value put back into the byte order of the host, 0xBBGGRR.
RgbToHost(v) == (v % 256) * 65536 + ((v \div 256) % 256) * 256 + (v \div 65536)

\* C13: the colour conversion is a byte reordering and is symmetric.  For a
\* 24-bit host colour c = 0xBBGGRR, _bgr_to_hex returns six hexadecimal digits
\* that read 0xRRGGBB: the first two are the low byte of c (red), the next
\* two the middle byte (green), the last two the high byte (blue); putting
\* that value back into the host byte order gives c again.
C13_ColorSymmetry ==
    color_pc = "done" =>
        /\ Len(hex_rgb) = 6
        /\ \A i \in 1..6 : IsHexDigit(hex_rgb[i])
        /\ ParseHex(SubSeq(hex_rgb, 1, 2)) = color_int % 256
        /\ ParseHex(SubSeq(hex_rgb, 3, 4)) = (color_int \div 256) % 256
        /\ ParseHex(SubSeq(hex_rgb, 5, 6)) = color_int \div 65536
        /\ RgbToHost(ParseHex(hex_rgb)) = color_int

\* 0xFF1A0D in host order (red 0x0D, green 0x1A, blue 0xFF) came back "0D1AFF".
C13_Witness ==
    /\ color_pc = "done"
    /\ color_int = 16718349
    /\ hex_rgb = <<"0", "D", "1", "A", "F", "F">>

=============================================================================
